---------------------------- MODULE Spec2Model ----------------------------
(***************************************************************************)
(* A model of scripts/navigator.py: the Navigator's accessibility-tree     *)
(* cache, the tree flattener, the element matcher and the interaction      *)
(* driver.                                                                 *)
(*                                                                         *)
(* Python values are represented as follows.                               *)
(*   dict      a function whose DOMAIN is the set of keys that are present *)
(*             (so dict.get(key, default) is Get below, and {} is <<>>)    *)
(*   list      a sequence                                                  *)
(*   str       a string                                                    *)
(*   None      the reserved string None, which no input contains           *)
(*   a parsed JSON document, and the value held by _tree_cache, carry a    *)
(*   tag ("None", "dict" or "list") because the code tells a list from a   *)
(*   dict (isinstance, and .get exists on a dict only)                     *)
(***************************************************************************)
EXTENDS Integers, Sequences, FiniteSets, TLC

VARIABLES
    nav,             \* nav[n]: the fields of Navigator n: udid, _tree_cache
    fetched,         \* fetched[n]: the document the most recent successful
                     \* describe-all run for n printed (the collaborator's side)
    last,            \* the most recent call on a Navigator and what it did
    flattenDefault,  \* the object bound to _flatten_tree's default `elements`
    ftree,           \* flattener specification: the tree being flattened
    fruns,           \* flattener specification: results of successive calls
    deep             \* deep-nesting specification: one _flatten_tree run

vars == <<nav, fetched, last, flattenDefault, ftree, fruns, deep>>

-----------------------------------------------------------------------------
(* Python values *)

None == "<None>"

Get(d, key, default) == IF key \in DOMAIN d THEN d[key] ELSE default

\* bool(s) for s a str or None
TruthyStr(s) == s # None /\ s # ""

EmptyDict == <<>>

-----------------------------------------------------------------------------
(* Bounds *)

\* raw trees of the flattener specification have at most this many nodes
MaxNodes == 4

\* successive _flatten_tree calls on one tree in the flattener specification
MaxRuns == 2

\* raw trees of the matcher specification have at most this many nodes
MaxFindNodes == 2

\* the index passed to find_element there lies in -MaxIndex..MaxIndex
MaxIndex == 2

-----------------------------------------------------------------------------
(* Element *)

Element(type, label, value, identifier, frame, traits, enabled) ==
    [type |-> type, label |-> label, value |-> value,
     identifier |-> identifier, frame |-> frame, traits |-> traits,
     enabled |-> enabled]

-----------------------------------------------------------------------------
(* Navigator._flatten_tree *)

\* lines 131-141: the Element made from a raw node
ElementOfNode(node) ==
    Element(Get(node, "type", "Unknown"),
            Get(node, "AXLabel", None),
            Get(node, "AXValue", None),
            Get(node, "AXUniqueId", None),
            Get(node, "frame", EmptyDict),
            Get(node, "traits", <<>>),
            Get(node, "enabled", TRUE))

\* line 131: if node.get('type')
EmitsElement_noTypeCheck(node) == TRUE

EmitsElement(node) == TruthyStr(Get(node, "type", None))

\* line 144: for child in node.get('children', [])
ChildrenOf(node) == Get(node, "children", <<>>)

\* lines 130-147 with the node appended after its children were visited
RECURSIVE _flatten_tree_postOrder(_, _)
_flatten_tree_postOrder(node, elements) ==
    LET RECURSIVE Visit(_, _)
        Visit(children, acc) ==
            IF children = <<>> THEN acc
            ELSE Visit(Tail(children),
                       _flatten_tree_postOrder(Head(children), acc))
        visited == Visit(ChildrenOf(node), elements)
    IN  IF EmitsElement(node) THEN Append(visited, ElementOfNode(node))
        ELSE visited

\* lines 130-147, called with the list `elements`, which it extends in place
\* and returns: the node's own Element first (131-141), then each child in
\* the order of the children list (144-145)
RECURSIVE _flatten_tree(_, _)
_flatten_tree(node, elements) ==
    LET RECURSIVE Visit(_, _)
        Visit(children, acc) ==
            IF children = <<>> THEN acc
            ELSE Visit(Tail(children), _flatten_tree(Head(children), acc))
        own == IF EmitsElement(node) THEN Append(elements, ElementOfNode(node))
               ELSE elements
    IN  Visit(ChildrenOf(node), own)

\* line 125 with a list as the default: one list object shared by all calls
DefaultElements_sharedList == [isNone |-> FALSE, items |-> <<>>]

\* line 125: elements: List[Element] = None
DefaultElements == [isNone |-> TRUE, items |-> <<>>]

\* lines 125-147 called without `elements`: the returned list, and the
\* object bound to the default afterwards (a list default is extended in
\* place; None is immutable)
FlattenCall(node, dflt) ==
    LET start == IF dflt.isNone THEN <<>> ELSE dflt.items
        result == _flatten_tree(node, start)
    IN  [result |-> result,
         dflt |-> IF dflt.isNone THEN dflt
                  ELSE [isNone |-> FALSE, items |-> result]]

-----------------------------------------------------------------------------
(* Raw trees for the flattener specification *)

Digit(i) ==
    CASE i = 1 -> "1" [] i = 2 -> "2" [] i = 3 -> "3" [] i = 4 -> "4"
      [] i = 5 -> "5" [] i = 6 -> "6" [] i = 7 -> "7" [] i = 8 -> "8"
      [] OTHER -> "9"

\* the AXUniqueId given to the node at `path` (the child indices from the
\* root): distinct nodes get distinct identifiers
RECURSIVE PathId(_)
PathId(path) ==
    IF path = <<>> THEN "r"
    ELSE PathId(SubSeq(path, 1, Len(path) - 1)) \o "." \o Digit(path[Len(path)])

NodeKinds == {"no_type", "empty_type", "enabled", "disabled", "bare"}

RawNode(kind, id, kids) ==
    CASE kind = "no_type" ->
            [AXUniqueId |-> id, enabled |-> TRUE, children |-> kids]
      [] kind = "empty_type" ->
            [type |-> "", AXUniqueId |-> id, enabled |-> TRUE,
             children |-> kids]
      [] kind = "enabled" ->
            [type |-> "Button", AXUniqueId |-> id, AXLabel |-> "Log In",
             enabled |-> TRUE, children |-> kids]
      [] kind = "disabled" ->
            [type |-> "Button", AXUniqueId |-> id, AXLabel |-> "Log In",
             enabled |-> FALSE, children |-> kids]
      [] OTHER ->
            IF kids = <<>> THEN [type |-> "Cell", AXUniqueId |-> id]
            ELSE [type |-> "Cell", AXUniqueId |-> id, children |-> kids]

RECURSIVE TreesAt(_, _), ForestsAt(_, _, _)
\* the trees of exactly n nodes whose root is at `path`
TreesAt(n, path) ==
    { RawNode(kind, PathId(path), kids) :
        kind \in NodeKinds, kids \in ForestsAt(n - 1, path, 1) }
\* the child lists of m nodes in all, the first child having index i
ForestsAt(m, path, i) ==
    IF m = 0 THEN {<<>>}
    ELSE UNION { { <<t>> \o f : t \in TreesAt(k, Append(path, i)),
                                f \in ForestsAt(m - k, path, i + 1) } :
                 k \in 1..m }

RawTrees == UNION { TreesAt(n, <<>>) : n \in 1..MaxNodes }

-----------------------------------------------------------------------------
(* Navigator: values *)

\* the value of _tree_cache, and a parsed JSON document
NoneC == [tag |-> "None"]
DictC(node) == [tag |-> "dict", val |-> node]
ListC(items) == [tag |-> "list", val |-> items]

\* bool(v) for v None, a dict or a list
Truthy(v) == v.tag # "None" /\ v.val # <<>>

Navs == {"n1", "n2"}

\* the udid each Navigator is constructed with: one without, one with
UdidGiven == [n \in Navs |-> IF n = "n1" THEN None ELSE "SIM-2"]

\* lines 94-97
Navigator(udid) == [udid |-> udid, _tree_cache |-> NoneC]

\* no call has been made yet
NoCall == [op |-> "none"]

\* no _flatten_tree run is in progress in the deep-nesting specification
IdleDeep == [depth |-> 0, frames |-> 0, emitted |-> 0, status |-> "idle"]

-----------------------------------------------------------------------------
(* The flattener specification: _flatten_tree called, without an           *)
(* accumulator, MaxRuns times on one raw tree                              *)

InitFlatten ==
    /\ ftree \in RawTrees
    /\ fruns = <<>>
    /\ flattenDefault = DefaultElements
    /\ nav = [n \in Navs |-> Navigator(UdidGiven[n])]
    /\ fetched = [n \in Navs |-> NoneC]
    /\ last = NoCall
    /\ deep = IdleDeep

Flatten ==
    /\ Len(fruns) < MaxRuns
    /\ LET call == FlattenCall(ftree, flattenDefault)
       IN  /\ fruns' = Append(fruns, call.result)
           /\ flattenDefault' = call.dflt
    /\ UNCHANGED <<ftree, nav, fetched, last, deep>>

NextFlatten == Flatten

SpecFlatten == InitFlatten /\ [][NextFlatten]_vars

-----------------------------------------------------------------------------
(* Strings *)

LowerChar(c) ==
    CASE c = "A" -> "a" [] c = "B" -> "b" [] c = "C" -> "c" [] c = "D" -> "d"
      [] c = "E" -> "e" [] c = "F" -> "f" [] c = "G" -> "g" [] c = "H" -> "h"
      [] c = "I" -> "i" [] c = "J" -> "j" [] c = "K" -> "k" [] c = "L" -> "l"
      [] c = "M" -> "m" [] c = "N" -> "n" [] c = "O" -> "o" [] c = "P" -> "p"
      [] c = "Q" -> "q" [] c = "R" -> "r" [] c = "S" -> "s" [] c = "T" -> "t"
      [] c = "U" -> "u" [] c = "V" -> "v" [] c = "W" -> "w" [] c = "X" -> "x"
      [] c = "Y" -> "y" [] c = "Z" -> "z" [] OTHER -> c

\* s.lower()
RECURSIVE Lower(_)
Lower(s) ==
    IF Len(s) = 0 THEN ""
    ELSE LowerChar(SubSeq(s, 1, 1)) \o Lower(SubSeq(s, 2, Len(s)))

\* needle in hay
In(needle, hay) ==
    \E i \in 0..(Len(hay) - Len(needle)) :
        SubSeq(hay, i + 1, i + Len(needle)) = needle

\* s or ""
OrEmpty(s) == IF TruthyStr(s) THEN s ELSE ""

-----------------------------------------------------------------------------
(* The collaborators: the commands sent and what each run can come to *)

\* lines 105-106, 213-214, 243-244 without the device argument
DeviceArgs_none(udid) == <<>>

\* lines 105-106, 213-214, 243-244: if self.udid: cmd.extend(['--udid', ...])
DeviceArgs(udid) == IF TruthyStr(udid) THEN <<"--udid", udid>> ELSE <<>>

\* line 104
DescribeCmd(udid) ==
    [argv |-> <<"idb", "ui", "describe-all", "--json", "--nested">>,
     device |-> DeviceArgs(udid)]

\* line 212
TapCmd(udid, x, y) ==
    [argv |-> <<"idb", "ui", "tap">>, x |-> x, y |-> y,
     device |-> DeviceArgs(udid)]

\* line 242
TextCmd(udid, text) ==
    [argv |-> <<"idb", "ui", "text", text>>, device |-> DeviceArgs(udid)]

\* line 239: time.sleep(0.5), recorded among the commands of a call
Sleep == [argv |-> <<"time.sleep", "0.5">>]

IsDescribe(c) == c.argv[1] = "idb" /\ c.argv[3] = "describe-all"
IsTap(c) == c.argv[1] = "idb" /\ c.argv[3] = "tap"
IsText(c) == c.argv[1] = "idb" /\ c.argv[3] = "text"

\* a command that a call did not get to run has the outcome NotRun
NotRun == "not_run"

\* subprocess.run(..., check=True): the command exits 0, exits non-zero
\* (CalledProcessError), or cannot be started at all (FileNotFoundError, an
\* OSError)
RunOutcomes == {"ok", "exit_nonzero", "cannot_run"}

-----------------------------------------------------------------------------
(* The screens the describe-all collaborator can report *)

Frame(x, y, w, h) == [x |-> x, y |-> y, width |-> w, height |-> h]

LoginScreen ==
    [type |-> "Application", AXLabel |-> "Demo", enabled |-> TRUE,
     frame |-> Frame(0, 0, 390, 844),
     children |-> <<
       [type |-> "Button", AXLabel |-> "Log In", AXUniqueId |-> "loginButton",
        enabled |-> TRUE, frame |-> Frame(100, 200, 50, 40)],
       [type |-> "TextField", AXLabel |-> "Username", AXValue |-> "",
        AXUniqueId |-> "userField", enabled |-> TRUE,
        frame |-> Frame(20, 300, 351, 45)],
       [type |-> "Button", AXLabel |-> "Submit", AXUniqueId |-> "submit",
        enabled |-> FALSE, frame |-> Frame(100, 400, 50, 40)] >>]

HomeScreen ==
    [type |-> "Application", AXLabel |-> "Demo", enabled |-> TRUE,
     frame |-> Frame(0, 0, 390, 844),
     children |-> <<
       [type |-> "StaticText", AXLabel |-> "Welcome", enabled |-> TRUE],
       [type |-> "Button", AXLabel |-> "Log Out",
        AXUniqueId |-> "logoutButton", enabled |-> TRUE,
        frame |-> Frame(300, 50, 61, 31)] >>]

\* what json.loads(result.stdout) can return: one object, an empty array
\* (nothing on screen), an array of root objects
Documents ==
    { DictC(LoginScreen), ListC(<<>>), ListC(<<HomeScreen, LoginScreen>>) }

\* one run of describe-all: it prints a JSON document, exits non-zero,
\* cannot be started, or prints something that is not JSON
DescribeOutcomes ==
    { [status |-> "ok", doc |-> d] : d \in Documents } \cup
    { [status |-> st] : st \in {"exit_nonzero", "cannot_run", "not_json"} }

-----------------------------------------------------------------------------
(* Navigator.get_accessibility_tree *)

\* what a call comes to: the Navigator afterwards, return or raise, the
\* value returned, the commands sent in order, the lines printed, the
\* flattened elements (find_element's local), the document fetched if a
\* fetch succeeded, and the object bound to _flatten_tree's default
Result(self, dflt) ==
    [self |-> self, kind |-> "return", exc |-> None, ret |-> None,
     cmds |-> <<>>, printed |-> <<>>, elements |-> <<>>, doc |-> NoneC,
     dflt |-> dflt]

\* line 101 with the test on force_refresh dropped
ServesFromCache_ignoresForce(cache, force_refresh) == Truthy(cache)

\* line 101: if self._tree_cache and not force_refresh
ServesFromCache(cache, force_refresh) == Truthy(cache) /\ ~force_refresh

\* lines 113-116 keeping the last root of the array
TreeOf_lastRoot(tree_data) ==
    IF tree_data.tag = "list" /\ Len(tree_data.val) > 0
    THEN DictC(tree_data.val[Len(tree_data.val)])
    ELSE tree_data

\* lines 113-116: the first root of a non-empty array, else the document
TreeOf(tree_data) ==
    IF tree_data.tag = "list" /\ Len(tree_data.val) > 0
    THEN DictC(tree_data.val[1])
    ELSE tree_data

\* lines 118-123 returning the cached tree instead of failing
FetchFailed_returnsStale(self, cmd, outcome, dflt) ==
    [Result(self, dflt) EXCEPT !.ret = self._tree_cache, !.cmds = <<cmd>>]

\* lines 109, 118-123: CalledProcessError and JSONDecodeError are caught,
\* reported and turned into sys.exit(1); an OSError from subprocess.run is
\* not caught and propagates
FetchFailed(self, cmd, outcome, dflt) ==
    [Result(self, dflt) EXCEPT
        !.kind = "raise",
        !.exc = IF outcome.status = "cannot_run" THEN "FileNotFoundError"
                ELSE "SystemExit",
        !.cmds = <<cmd>>,
        !.printed = CASE outcome.status = "exit_nonzero" ->
                           <<"Error: Failed to get accessibility tree">>
                      [] outcome.status = "not_json" ->
                           <<"Error: Invalid JSON from idb">>
                      [] OTHER -> <<>>]

\* lines 99-123
get_accessibility_tree(self, force_refresh, outcome, dflt) ==
    IF ServesFromCache(self._tree_cache, force_refresh)
    THEN [Result(self, dflt) EXCEPT !.ret = self._tree_cache]
    ELSE LET cmd == DescribeCmd(self.udid)
         IN  IF outcome.status = "ok"
             THEN LET tree == TreeOf(outcome.doc)
                  IN  [Result([self EXCEPT !._tree_cache = tree], dflt) EXCEPT
                          !.ret = tree, !.cmds = <<cmd>>, !.doc = outcome.doc]
             ELSE FetchFailed(self, cmd, outcome, dflt)

\* the describe-all outcomes a call can meet: none when it runs no command
DescribeChoices(self, force_refresh) ==
    IF ServesFromCache(self._tree_cache, force_refresh) THEN {[status |-> NotRun]}
    ELSE DescribeOutcomes

-----------------------------------------------------------------------------
(* Navigator.find_element *)

\* Python None where an Element is expected
NoElement == [isNone |-> TRUE]

\* lines 176-178 without the test on enabled
SkipsDisabled_never(elem) == FALSE

\* lines 176-178: if not elem.enabled: continue
SkipsDisabled(elem) == ~elem.enabled

\* lines 180-182 with the type compared without regard to case
RejectsType_ignoresCase(elem, element_type) ==
    TruthyStr(element_type) /\ Lower(elem.type) # Lower(element_type)

\* lines 180-182: if element_type and elem.type != element_type: continue
RejectsType(elem, element_type) ==
    TruthyStr(element_type) /\ elem.type # element_type

\* lines 184-186 with an empty identifier taken as a criterion
RejectsIdentifier_emptyIsGiven(elem, identifier) ==
    identifier # None /\ elem.identifier # identifier

\* lines 184-186: if identifier and elem.identifier != identifier: continue
RejectsIdentifier(elem, identifier) ==
    TruthyStr(identifier) /\ elem.identifier # identifier

\* line 190 without the joining space
elem_text_noSpace(elem) == OrEmpty(elem.label) \o OrEmpty(elem.value)

\* line 190: elem_text = (elem.label or "") + " " + (elem.value or "")
elem_text(elem) == OrEmpty(elem.label) \o " " \o OrEmpty(elem.value)

\* lines 191-193: if text.lower() not in elem_text.lower(): continue
RejectsFuzzy(elem, text) == ~In(Lower(text), Lower(elem_text(elem)))

\* lines 194-196 with the text looked for inside the label or the value
RejectsExact_substring(elem, text) ==
    ~In(text, OrEmpty(elem.label)) /\ ~In(text, OrEmpty(elem.value))

\* lines 194-196: if text != elem.label and text != elem.value: continue
RejectsExact(elem, text) == text # elem.label /\ text # elem.value

\* lines 188-196: the text check, made only when a text is given
RejectsText(elem, text, fuzzy) ==
    TruthyStr(text) /\ IF fuzzy THEN RejectsFuzzy(elem, text)
                               ELSE RejectsExact(elem, text)

\* lines 175-198: the element is appended to matches
Matches(elem, text, element_type, identifier, fuzzy) ==
    /\ ~SkipsDisabled(elem)
    /\ ~RejectsType(elem, element_type)
    /\ ~RejectsIdentifier(elem, identifier)
    /\ ~RejectsText(elem, text, fuzzy)

\* lines 200-203 with the position counted from the end of matches
Pick_fromEnd(matches, index) ==
    IF matches # <<>> /\ index < Len(matches) /\ index >= 0
    THEN [kind |-> "return", exc |-> None,
          ret |-> matches[Len(matches) - index]]
    ELSE [kind |-> "return", exc |-> None, ret |-> NoElement]

\* lines 200-203: matches[index] with Python's indexing, where a negative
\* index counts from the end and one below -len(matches) raises IndexError
Pick(matches, index) ==
    IF matches # <<>> /\ index < Len(matches)
    THEN IF index >= 0
         THEN [kind |-> "return", exc |-> None, ret |-> matches[index + 1]]
         ELSE IF index >= -Len(matches)
         THEN [kind |-> "return", exc |-> None,
               ret |-> matches[Len(matches) + index + 1]]
         ELSE [kind |-> "raise", exc |-> "IndexError", ret |-> NoElement]
    ELSE [kind |-> "return", exc |-> None, ret |-> NoElement]

\* lines 149-203; _flatten_tree raises AttributeError on a tree that is not
\* a dict (a list has no .get)
find_element(self, text, element_type, identifier, index, fuzzy, outcome, dflt) ==
    LET got == get_accessibility_tree(self, FALSE, outcome, dflt)
    IN  IF got.kind = "raise" THEN [got EXCEPT !.ret = NoElement]
        ELSE IF got.ret.tag # "dict"
        THEN [got EXCEPT !.kind = "raise", !.exc = "AttributeError",
                         !.ret = NoElement]
        ELSE LET call == FlattenCall(got.ret.val, dflt)
                 matches == SelectSeq(call.result,
                              LAMBDA e : Matches(e, text, element_type,
                                                 identifier, fuzzy))
                 picked == Pick(matches, index)
             IN  [got EXCEPT !.kind = picked.kind, !.exc = picked.exc,
                             !.ret = picked.ret, !.elements = call.result,
                             !.dflt = call.dflt]

-----------------------------------------------------------------------------
(* Element.center, Element.description *)

\* int(v) of the quotient n / d: truncation toward zero
Trunc(n, d) == IF n >= 0 THEN n \div d ELSE -((-n) \div d)

\* lines 80-81 read these keys; a missing one raises KeyError
HasFrame(element) ==
    {"x", "y", "width", "height"} \subseteq DOMAIN element.frame

\* lines 77-82
center(element) ==
    <<Trunc(2 * element.frame["x"] + element.frame["width"], 2),
      Trunc(2 * element.frame["y"] + element.frame["height"], 2)>>

\* lines 84-88
description(element) ==
    LET label == IF TruthyStr(element.label) THEN element.label
                 ELSE IF TruthyStr(element.value) THEN element.value
                 ELSE IF TruthyStr(element.identifier) THEN element.identifier
                 ELSE "Unnamed"
    IN  element.type \o " \"" \o label \o "\""

-----------------------------------------------------------------------------
(* Navigator.tap_at, tap, enter_text *)

\* lines 210-220: CalledProcessError is caught; an OSError is not
tap_at(self, x, y, tapOutcome, dflt) ==
    LET ran == [Result(self, dflt) EXCEPT !.cmds = <<TapCmd(self.udid, x, y)>>]
    IN  CASE tapOutcome = "ok" -> [ran EXCEPT !.ret = TRUE]
          [] tapOutcome = "exit_nonzero" -> [ran EXCEPT !.ret = FALSE]
          [] tapOutcome = "cannot_run" ->
                [ran EXCEPT !.kind = "raise", !.exc = "FileNotFoundError"]

\* lines 205-208
tap(self, element, tapOutcome, dflt) ==
    IF ~HasFrame(element)
    THEN [Result(self, dflt) EXCEPT !.kind = "raise", !.exc = "KeyError"]
    ELSE tap_at(self, center(element)[1], center(element)[2], tapOutcome, dflt)

\* lines 222-250 with the text sent before the tap result is looked at and
\* without the delay
enter_text_textFirst(self, text, element, tapOutcome, textOutcome, dflt) ==
    LET tapped == IF element # NoElement
                  THEN tap(self, element, tapOutcome, dflt)
                  ELSE [Result(self, dflt) EXCEPT !.ret = TRUE]
    IN  IF tapped.kind = "raise" THEN tapped
        ELSE [Result(self, dflt) EXCEPT
                 !.cmds = <<TextCmd(self.udid, text)>> \o tapped.cmds,
                 !.ret = tapped.ret /\ textOutcome = "ok"]

\* lines 222-250; an Element is always true, None is false
enter_text(self, text, element, tapOutcome, textOutcome, dflt) ==
    LET tapped == IF element # NoElement
                  THEN tap(self, element, tapOutcome, dflt)
                  ELSE [Result(self, dflt) EXCEPT !.ret = TRUE]
    IN  IF tapped.kind = "raise" THEN tapped
        ELSE IF ~tapped.ret THEN [tapped EXCEPT !.ret = FALSE]
        ELSE LET before == IF element # NoElement
                           THEN Append(tapped.cmds, Sleep) ELSE <<>>
                 ran == [Result(self, dflt) EXCEPT
                            !.cmds = Append(before, TextCmd(self.udid, text))]
             IN  CASE textOutcome = "ok" -> [ran EXCEPT !.ret = TRUE]
                   [] textOutcome = "exit_nonzero" -> [ran EXCEPT !.ret = FALSE]
                   [] textOutcome = "cannot_run" ->
                         [ran EXCEPT !.kind = "raise",
                                     !.exc = "FileNotFoundError"]

-----------------------------------------------------------------------------
(* Navigator.find_and_tap, find_and_enter_text *)

\* ', '.join(parts)
RECURSIVE Join(_)
Join(parts) ==
    IF parts = <<>> THEN ""
    ELSE IF Len(parts) = 1 THEN parts[1]
    ELSE parts[1] \o ", " \o Join(Tail(parts))

\* lines 268-272
NotFoundMessage(text, element_type, identifier) ==
    "Not found: " \o
    Join((IF TruthyStr(text) THEN <<"text='" \o text \o "'">> ELSE <<>>) \o
         (IF TruthyStr(element_type) THEN <<"type=" \o element_type>> ELSE <<>>) \o
         (IF TruthyStr(identifier) THEN <<"id=" \o identifier>> ELSE <<>>))

\* a (success, message) pair; `at` holds the coordinates a message ends with
Pair(success, message, at) ==
    [success |-> success, message |-> message, at |-> at]

\* lines 252-277: find_element is called with its default fuzzy=True
find_and_tap(self, text, element_type, identifier, index, outcome, tapOutcome, dflt) ==
    LET found == find_element(self, text, element_type, identifier, index,
                              TRUE, outcome, dflt)
        element == found.ret
    IN  IF found.kind = "raise" THEN found
        ELSE IF element = NoElement
        THEN [found EXCEPT !.ret =
                 Pair(FALSE, NotFoundMessage(text, element_type, identifier), <<>>)]
        ELSE LET tapped == tap(found.self, element, tapOutcome, found.dflt)
                 done == [found EXCEPT !.cmds = found.cmds \o tapped.cmds]
             IN  IF tapped.kind = "raise"
                 THEN [done EXCEPT !.kind = "raise", !.exc = tapped.exc,
                                   !.ret = None]
                 ELSE IF tapped.ret
                 THEN [done EXCEPT !.ret =
                         Pair(TRUE, "Tapped: " \o description(element) \o " at ",
                              center(element))]
                 ELSE [done EXCEPT !.ret =
                         Pair(FALSE, "Failed to tap: " \o description(element), <<>>)]

\* line 283 with another default
DefaultElementType_button == "Button"

\* line 283: element_type: Optional[str] = "TextField"
DefaultElementType == "TextField"

\* an argument the caller leaves out
Omitted == "<omitted>"

\* lines 279-301
find_and_enter_text(self, text_to_enter, find_text, element_type_arg, identifier, index, outcome, tapOutcome, textOutcome, dflt) ==
    LET element_type == IF element_type_arg = Omitted THEN DefaultElementType
                        ELSE element_type_arg
        found == find_element(self, find_text, element_type, identifier, index,
                              TRUE, outcome, dflt)
        element == found.ret
    IN  IF found.kind = "raise" THEN found
        ELSE IF element = NoElement
        THEN [found EXCEPT !.ret = Pair(FALSE, "TextField not found", <<>>)]
        ELSE LET entered == enter_text(found.self, text_to_enter, element,
                                       tapOutcome, textOutcome, found.dflt)
                 done == [found EXCEPT !.cmds = found.cmds \o entered.cmds]
             IN  IF entered.kind = "raise"
                 THEN [done EXCEPT !.kind = "raise", !.exc = entered.exc,
                                   !.ret = None]
                 ELSE IF entered.ret
                 THEN [done EXCEPT !.ret =
                         Pair(TRUE, "Entered text in: " \o description(element), <<>>)]
                 ELSE [done EXCEPT !.ret = Pair(FALSE, "Failed to enter text", <<>>)]

-----------------------------------------------------------------------------
(* main: the command line of navigator.py *)

\* a or b, for strings and None
Or(a, b) == IF TruthyStr(a) THEN a ELSE b

\* s.split(',')
RECURSIVE SplitComma(_)
SplitComma(s) ==
    LET commas == { i \in 1..Len(s) : SubSeq(s, i, i) = "," }
    IN  IF commas = {} THEN <<s>>
        ELSE LET first == CHOOSE i \in commas : \A j \in commas : i <= j
             IN  <<SubSeq(s, 1, first - 1)>> \o
                 SplitComma(SubSeq(s, first + 1, Len(s)))

DigitValue(c) ==
    CASE c = "0" -> 0 [] c = "1" -> 1 [] c = "2" -> 2 [] c = "3" -> 3
      [] c = "4" -> 4 [] c = "5" -> 5 [] c = "6" -> 6 [] c = "7" -> 7
      [] c = "8" -> 8 [] c = "9" -> 9

\* the digits of a literal, after its sign
Unsigned(s) ==
    IF Len(s) > 0 /\ SubSeq(s, 1, 1) \in {"+", "-"}
    THEN SubSeq(s, 2, Len(s)) ELSE s

\* int(s) accepts s: an optional sign and one or more decimal digits
\* (the blanks and underscores int() also allows are left out); any
\* other string raises ValueError
IsIntLiteral(s) ==
    /\ Len(Unsigned(s)) > 0
    /\ \A i \in 1..Len(Unsigned(s)) :
          SubSeq(Unsigned(s), i, i) \in
              {"0", "1", "2", "3", "4", "5", "6", "7", "8", "9"}

RECURSIVE DigitsValue(_, _)
DigitsValue(s, n) ==
    IF n = 0 THEN 0
    ELSE 10 * DigitsValue(s, n - 1) + DigitValue(SubSeq(s, n, n))

\* int(s) of a literal
ParseInt(s) ==
    IF SubSeq(s, 1, 1) = "-" THEN -DigitsValue(Unsigned(s), Len(Unsigned(s)))
    ELSE DigitsValue(Unsigned(s), Len(Unsigned(s)))

\* one printed line: its text and the numbers formatted into it
Line(text, nums) == [text |-> text, nums |-> nums]

\* the lines get_accessibility_tree printed
LinesOf(printed) == [i \in 1..Len(printed) |-> Line(printed[i], <<>>)]

\* lines 336-337
TappableTypes == {"Button", "Link", "Cell", "TextField", "SecureTextField"}

\* line 340: tappable[:10], line 343: len(tappable) > 10
ListLimit == 10

\* line 341: the second Or is on a literal that is never empty
ListLine(elem) ==
    Line("  " \o elem.type \o ": \"" \o
         Or(elem.label, Or(elem.value, "Unnamed")) \o "\" ",
         center(elem))

\* lines 331-410 pick the mode; --list is looked at first and exits
ModeOf(args) ==
    IF args.list THEN "list"
    ELSE IF TruthyStr(args.tap_at) THEN "tap_at"
    ELSE IF args.tap THEN "tap"
    ELSE IF TruthyStr(args.enter_text) THEN "enter_text"
    ELSE "find"

\* how a run of main ends: the exit status, the lines on standard output,
\* the exception of the traceback if one ended the run, the mode that
\* ran, the commands sent, the Navigator and the elements it flattened
Exited(status, stdout, traceback, mode, r) ==
    [status |-> status, stdout |-> stdout, traceback |-> traceback,
     mode |-> mode, cmds |-> r.cmds, self |-> r.self,
     elements |-> r.elements]

\* a call inside main raised: sys.exit(1) of get_accessibility_tree ends the
\* run with status 1 after its message; any other exception is uncaught,
\* and Python prints a traceback on standard error and exits with status 1
Raised(stdout, mode, r) ==
    IF r.exc = "SystemExit"
    THEN Exited(1, stdout \o LinesOf(r.printed), None, mode, r)
    ELSE Exited(1, stdout, r.exc, mode, r)

\* lines 339-345: the header, the lines of the first ListLimit elements
\* (elem.center raises KeyError at the first without a frame), the line
\* of the rest
ListTappable(r, tappable) ==
    LET shown == SubSeq(tappable, 1,
                        IF Len(tappable) < ListLimit THEN Len(tappable)
                        ELSE ListLimit)
        frameless == { i \in 1..Len(shown) : ~HasFrame(shown[i]) }
        header == Line("Tappable elements", <<Len(tappable)>>)
    IN  IF frameless # {}
        THEN LET bad == CHOOSE i \in frameless :
                            \A j \in frameless : i <= j
             IN  Raised(<<header>> \o
                        [i \in 1..(bad - 1) |-> ListLine(shown[i])],
                        "list", [r EXCEPT !.exc = "KeyError"])
        ELSE Exited(0,
                    <<header>> \o
                    [i \in 1..Len(shown) |-> ListLine(shown[i])] \o
                    (IF Len(tappable) > ListLimit
                     THEN <<Line("  ... and more",
                                 <<Len(tappable) - ListLimit>>)>>
                     ELSE <<>>),
                    None, "list", r)

\* lines 336-337
ListElements(got, elements) ==
    ListTappable([got EXCEPT !.elements = elements],
                 SelectSeq(elements,
                           LAMBDA e : e.enabled /\ e.type \in TappableTypes))

\* lines 332-333, with what get_accessibility_tree came to
ListTree(got, dflt) ==
    IF got.kind = "raise" THEN Raised(<<>>, "list", got)
    ELSE IF got.ret.tag # "dict"
    THEN Raised(<<>>, "list", [got EXCEPT !.exc = "AttributeError"])
    ELSE ListElements(got, FlattenCall(got.ret.val, dflt).result)

\* lines 331-345
ListMode(navigator, outcome, dflt) ==
    ListTree(get_accessibility_tree(navigator, FALSE, outcome, dflt), dflt)

\* lines 356-359
TapAtReport(x, y, tapped) ==
    IF tapped.kind = "raise" THEN Raised(<<>>, "tap_at", tapped)
    ELSE IF tapped.ret
    THEN Exited(0, <<Line("Tapped at", <<x, y>>)>>, None, "tap_at", tapped)
    ELSE Exited(1, <<Line("Failed to tap at", <<x, y>>)>>, None, "tap_at",
                tapped)

\* lines 349-355, on the pieces of the argument
TapAtCoords(navigator, coords, tapOutcome, dflt) ==
    IF Len(coords) # 2
    THEN Exited(1, <<Line("Error: --tap-at requires x,y format", <<>>)>>,
                None, "tap_at", Result(navigator, dflt))
    ELSE IF ~IsIntLiteral(coords[1]) \/ ~IsIntLiteral(coords[2])
    THEN Raised(<<>>, "tap_at",
                [Result(navigator, dflt) EXCEPT !.exc = "ValueError"])
    ELSE TapAtReport(ParseInt(coords[1]), ParseInt(coords[2]),
                     tap_at(navigator, ParseInt(coords[1]),
                            ParseInt(coords[2]), tapOutcome, dflt))

\* lines 348-359
TapAtMode(navigator, tap_at_arg, tapOutcome, dflt) ==
    TapAtCoords(navigator, SplitComma(tap_at_arg), tapOutcome, dflt)

\* lines 373-375, 389-391: print(message); sys.exit(1) unless success
Reported(mode, r) ==
    IF r.kind = "raise" THEN Raised(<<>>, mode, r)
    ELSE Exited(IF r.ret.success THEN 0 ELSE 1,
                <<Line(r.ret.message, r.ret.at)>>, None, mode, r)

\* lines 362-375: fuzzy is computed on line 364 and passed to nothing
TapMode(navigator, args, outcome, tapOutcome, dflt) ==
    Reported("tap",
             find_and_tap(navigator, Or(args.find_text, args.find_exact),
                          args.find_type, args.find_id, args.index, outcome,
                          tapOutcome, dflt))

\* lines 378-391
EnterTextMode(navigator, args, outcome, tapOutcome, textOutcome, dflt) ==
    Reported("enter_text",
             find_and_enter_text(navigator, args.enter_text,
                                 Or(args.find_text, args.find_exact),
                                 Or(args.find_type, "TextField"),
                                 args.find_id, args.index, outcome,
                                 tapOutcome, textOutcome, dflt))

\* lines 404-410
FindReport(found) ==
    IF found.kind = "raise" THEN Raised(<<>>, "find", found)
    ELSE IF found.ret = NoElement
    THEN Exited(1, <<Line("Element not found", <<>>)>>, None, "find", found)
    ELSE IF ~HasFrame(found.ret)
    THEN Raised(<<>>, "find", [found EXCEPT !.exc = "KeyError"])
    ELSE Exited(0, <<Line("Found: " \o description(found.ret) \o " at ",
                          center(found.ret))>>, None, "find", found)

\* lines 394-410
FindMode(navigator, args, outcome, dflt) ==
    FindReport(find_element(navigator, Or(args.find_text, args.find_exact),
                            args.find_type, args.find_id, args.index,
                            args.find_text # None, outcome, dflt))

\* lines 304-410
main(args, outcome, tapOutcome, textOutcome, dflt) ==
    LET navigator == Navigator(args.udid)
        mode == ModeOf(args)
    IN  CASE mode = "list" -> ListMode(navigator, outcome, dflt)
          [] mode = "tap_at" ->
                TapAtMode(navigator, args.tap_at, tapOutcome, dflt)
          [] mode = "tap" ->
                TapMode(navigator, args, outcome, tapOutcome, dflt)
          [] mode = "enter_text" ->
                EnterTextMode(navigator, args, outcome, tapOutcome,
                              textOutcome, dflt)
          [] mode = "find" -> FindMode(navigator, args, outcome, dflt)

-----------------------------------------------------------------------------
(* The Navigator specification: two Navigators, called in any order *)

\* lines 97, 114, 116: _tree_cache as one attribute of the class, shared by
\* all instances
Store_sharedCache(navs, n, self) ==
    [m \in DOMAIN navs |->
        IF m = n THEN self
        ELSE [navs[m] EXCEPT !._tree_cache = self._tree_cache]]

\* lines 97, 114, 116: self._tree_cache is an attribute of the instance
Store(navs, n, self) == [navs EXCEPT ![n] = self]

\* a call of `op` on Navigator n came to r
Done(op, n, args, outcomes, r) ==
    /\ nav' = Store(nav, n, r.self)
    /\ fetched' = IF r.doc # NoneC THEN [fetched EXCEPT ![n] = r.doc]
                  ELSE fetched
    /\ flattenDefault' = r.dflt
    /\ last' = [op |-> op, nav |-> n, args |-> args, outcomes |-> outcomes,
                pre |-> nav[n], preFetched |-> fetched[n],
                kind |-> r.kind, exc |-> r.exc, ret |-> r.ret,
                cmds |-> r.cmds, printed |-> r.printed,
                elements |-> r.elements]
    /\ UNCHANGED <<ftree, fruns, deep>>

Criteria(text, element_type, identifier, index, fuzzy) ==
    [text |-> text, element_type |-> element_type,
     identifier |-> identifier, index |-> index, fuzzy |-> fuzzy]

\* the criteria callers pass in the Navigator specification: none at all,
\* a disabled element's text, an element that has no frame
SomeCriteria ==
    { Criteria(None, None, None, 0, TRUE),
      Criteria("Submit", "Button", None, 0, FALSE),
      Criteria("welcome", None, None, 0, TRUE) }

\* the criteria passed to find_and_enter_text there
EnterCriteria ==
    { Criteria(None, None, None, 0, TRUE),
      Criteria("user", None, None, 1, TRUE) }

\* the type argument of find_and_enter_text: left out, or given
TypeArgs == {Omitted, "Button"}

\* Elements a caller holds from an earlier find_element
HeldElements ==
    { _flatten_tree(LoginScreen, <<>>)[2], _flatten_tree(HomeScreen, <<>>)[2] }

TapPoints == { <<200, 400>> }

TextsToEnter == { "alice" }

\* the outcomes a tap can meet after find_element came to `found`
TapReached(found) ==
    found.kind = "return" /\ found.ret # NoElement /\ HasFrame(found.ret)

TapChoices(reached) == IF reached THEN RunOutcomes ELSE {NotRun}

GetAccessibilityTree(n, force_refresh) ==
    \E outcome \in DescribeChoices(nav[n], force_refresh) :
        Done("get_accessibility_tree", n, [force_refresh |-> force_refresh],
             [describe |-> outcome.status],
             get_accessibility_tree(nav[n], force_refresh, outcome,
                                    flattenDefault))

FindElement(n, c) ==
    \E outcome \in DescribeChoices(nav[n], FALSE) :
        Done("find_element", n, c, [describe |-> outcome.status],
             find_element(nav[n], c.text, c.element_type, c.identifier,
                          c.index, c.fuzzy, outcome, flattenDefault))

TapAt(n, point) ==
    \E tapOutcome \in RunOutcomes :
        Done("tap_at", n, [x |-> point[1], y |-> point[2]],
             [tap |-> tapOutcome],
             tap_at(nav[n], point[1], point[2], tapOutcome, flattenDefault))

Tap(n, element) ==
    \E tapOutcome \in TapChoices(HasFrame(element)) :
        Done("tap", n, [element |-> element], [tap |-> tapOutcome],
             tap(nav[n], element, tapOutcome, flattenDefault))

EnterText(n, text, element) ==
    \E tapOutcome \in TapChoices(element # NoElement /\ HasFrame(element)) :
      \E textOutcome \in TapChoices(element = NoElement \/ tapOutcome = "ok") :
        Done("enter_text", n, [text |-> text, element |-> element],
             [tap |-> tapOutcome, text |-> textOutcome],
             enter_text(nav[n], text, element, tapOutcome, textOutcome,
                        flattenDefault))

FindAndTap(n, c) ==
    \E outcome \in DescribeChoices(nav[n], FALSE) :
      \E tapOutcome \in
            TapChoices(TapReached(
                find_element(nav[n], c.text, c.element_type, c.identifier,
                             c.index, TRUE, outcome, flattenDefault))) :
        Done("find_and_tap", n, c,
             [describe |-> outcome.status, tap |-> tapOutcome],
             find_and_tap(nav[n], c.text, c.element_type, c.identifier,
                          c.index, outcome, tapOutcome, flattenDefault))

FindAndEnterText(n, text, c, typeArg) ==
    \E outcome \in DescribeChoices(nav[n], FALSE) :
      \E tapOutcome \in
            TapChoices(TapReached(
                find_element(nav[n], c.text,
                             IF typeArg = Omitted THEN DefaultElementType
                             ELSE typeArg,
                             c.identifier, c.index, TRUE, outcome,
                             flattenDefault))) :
        \E textOutcome \in TapChoices(tapOutcome = "ok") :
          Done("find_and_enter_text", n,
               [text_to_enter |-> text, find_text |-> c.text,
                element_type |-> typeArg, identifier |-> c.identifier,
                index |-> c.index],
               [describe |-> outcome.status, tap |-> tapOutcome,
                text |-> textOutcome],
               find_and_enter_text(nav[n], text, c.text, typeArg,
                                   c.identifier, c.index, outcome, tapOutcome,
                                   textOutcome, flattenDefault))

Init ==
    /\ nav = [n \in Navs |-> Navigator(UdidGiven[n])]
    /\ fetched = [n \in Navs |-> NoneC]
    /\ last = NoCall
    /\ flattenDefault = DefaultElements
    /\ ftree = EmptyDict
    /\ fruns = <<>>
    /\ deep = IdleDeep

Next ==
    \E n \in Navs :
        \/ \E force_refresh \in BOOLEAN : GetAccessibilityTree(n, force_refresh)
        \/ \E c \in SomeCriteria : FindElement(n, c)
        \/ \E point \in TapPoints : TapAt(n, point)
        \/ \E element \in HeldElements : Tap(n, element)
        \/ \E text \in TextsToEnter :
              \E element \in HeldElements \cup {NoElement} :
                  EnterText(n, text, element)
        \/ \E c \in SomeCriteria : FindAndTap(n, c)
        \/ \E text \in TextsToEnter : \E c \in EnterCriteria :
              \E typeArg \in TypeArgs : FindAndEnterText(n, text, c, typeArg)

Spec == Init /\ [][Next]_vars

-----------------------------------------------------------------------------
(* The matcher specification: one find_element call, with any criteria, on *)
(* a Navigator whose cache holds a raw tree                                *)

FindTrees == UNION { TreesAt(n, <<>>) : n \in 1..MaxFindNodes }

FindTexts == {None, "", "log", "Log In"}
FindTypes == {None, "Button", "button", "Cell"}
FindIds == {None, "r", "r.1"}

AllCriteria ==
    { Criteria(text, element_type, identifier, index, fuzzy) :
        text \in FindTexts, element_type \in FindTypes,
        identifier \in FindIds, index \in -MaxIndex..MaxIndex,
        fuzzy \in BOOLEAN }

InitFind ==
    /\ \E tree \in FindTrees :
          /\ nav = [n \in Navs |->
                      IF n = "n1"
                      THEN [Navigator(UdidGiven[n]) EXCEPT
                               !._tree_cache = DictC(tree)]
                      ELSE Navigator(UdidGiven[n])]
          /\ fetched = [n \in Navs |-> IF n = "n1" THEN DictC(tree) ELSE NoneC]
    /\ last = NoCall
    /\ flattenDefault = DefaultElements
    /\ ftree = EmptyDict
    /\ fruns = <<>>
    /\ deep = IdleDeep

NextFind ==
    /\ last = NoCall
    /\ \E c \in AllCriteria : FindElement("n1", c)

SpecFind == InitFind /\ [][NextFind]_vars

-----------------------------------------------------------------------------
(* The text matcher specification: one find_element call on a Navigator    *)
(* whose cache holds a screen of labelled and valued elements              *)

\* the most elements under the root of a generated screen
MaxMatchKids == 2

\* nodes as describe-all reports them: a label only, a label and a value, a
\* value only, a label in another case, a disabled twin of the first
MatchNodes ==
    { [type |-> "Button", AXLabel |-> "Log In", AXUniqueId |-> "login",
       enabled |-> TRUE],
      [type |-> "StaticText", AXLabel |-> "Log", AXValue |-> "In",
       AXUniqueId |-> "split"],
      [type |-> "TextField", AXValue |-> "Log In", AXUniqueId |-> "field"],
      [type |-> "Button", AXLabel |-> "log in", AXUniqueId |-> "lower",
       enabled |-> TRUE],
      [type |-> "Button", AXLabel |-> "Log In", AXUniqueId |-> "login",
       enabled |-> FALSE] }

RECURSIVE NodeSeqs(_)
\* the child lists of exactly k nodes
NodeSeqs(k) ==
    IF k = 0 THEN {<<>>}
    ELSE { Append(kids, node) : kids \in NodeSeqs(k - 1), node \in MatchNodes }

ScreenOf(kids) ==
    [type |-> "Application", enabled |-> TRUE, children |-> kids]

\* three enabled Buttons A, B, C in document order, a disabled one between
ButtonsScreen ==
    ScreenOf(<< [type |-> "Button", AXLabel |-> "A", enabled |-> TRUE],
                [type |-> "Button", AXLabel |-> "X", enabled |-> FALSE],
                [type |-> "Button", AXLabel |-> "B", enabled |-> TRUE],
                [type |-> "Button", AXLabel |-> "C", enabled |-> TRUE] >>)

MatchScreens ==
    {ButtonsScreen} \cup
    UNION { { ScreenOf(kids) : kids \in NodeSeqs(k) } : k \in 0..MaxMatchKids }

MatchTexts == {None, "", "log", "Log In", "In", "LOG IN"}
MatchTypes == {None, "", "Button", "button"}
MatchIds == {None, "", "login", "Login"}

\* --index takes any integer
MatchIndexes == (-MaxIndex..MaxIndex) \cup {5}

MatchCriteria ==
    { Criteria(text, element_type, identifier, index, fuzzy) :
        text \in MatchTexts, element_type \in MatchTypes,
        identifier \in MatchIds, index \in MatchIndexes,
        fuzzy \in BOOLEAN }

InitMatch ==
    /\ \E tree \in MatchScreens :
          /\ nav = [n \in Navs |->
                      IF n = "n1"
                      THEN [Navigator(UdidGiven[n]) EXCEPT
                               !._tree_cache = DictC(tree)]
                      ELSE Navigator(UdidGiven[n])]
          /\ fetched = [n \in Navs |-> IF n = "n1" THEN DictC(tree) ELSE NoneC]
    /\ last = NoCall
    /\ flattenDefault = DefaultElements
    /\ ftree = EmptyDict
    /\ fruns = <<>>
    /\ deep = IdleDeep

NextMatch ==
    /\ last = NoCall
    /\ \E c \in MatchCriteria : FindElement("n1", c)

SpecMatch == InitMatch /\ [][NextMatch]_vars

-----------------------------------------------------------------------------
(* The interaction specification: tap, tap_at and enter_text calls with    *)
(* elements of any frame, under every outcome of the collaborators         *)

\* frames with even and odd widths and heights
TapFrames ==
    { Frame(x, y, w, h) : x \in {0, 100}, y \in {200}, w \in {50, 51},
                          h \in {40, 41} }

\* Elements as _flatten_tree makes them, the last from a node without frame
TapElements ==
    { Element("TextField", "Name", None, "name", f, <<>>, TRUE) :
        f \in TapFrames \cup {EmptyDict} }

InteractPoints == { <<0, 0>>, <<200, 400>> }

InteractTexts == { "alice", "" }

NextInteract ==
    \E n \in Navs :
        \/ \E point \in InteractPoints : TapAt(n, point)
        \/ \E element \in TapElements : Tap(n, element)
        \/ \E text \in InteractTexts :
              \E element \in TapElements \cup {NoElement} :
                  EnterText(n, text, element)

SpecInteract == Init /\ [][NextInteract]_vars

-----------------------------------------------------------------------------
(* The command-line specification: runs of main, each with its own         *)
(* arguments, screen and collaborator outcomes                             *)

\* the most tappable elements on a generated screen
MaxItems == 12

\* a screen of k enabled Buttons after a disabled Button and a StaticText
ItemsScreen(k) ==
    ScreenOf(<< [type |-> "Button", AXLabel |-> "Off", enabled |-> FALSE,
                 frame |-> Frame(0, 0, 10, 10)],
                [type |-> "StaticText", AXLabel |-> "Items",
                 frame |-> Frame(0, 20, 10, 10)] >> \o
             [i \in 1..k |->
                [type |-> "Button", AXLabel |-> "Item", enabled |-> TRUE,
                 frame |-> Frame(10 * i, 40, 10, 10)]])

\* a screen whose second tappable element has no frame
FramelessScreen ==
    ScreenOf(<< [type |-> "Button", AXLabel |-> "Log In", enabled |-> TRUE,
                 frame |-> Frame(100, 200, 50, 40)],
                [type |-> "Cell", AXLabel |-> "Logbook"] >>)

ItemCounts == {0, ListLimit, ListLimit + 1, MaxItems}

MainDocuments ==
    Documents \cup { DictC(ItemsScreen(k)) : k \in ItemCounts }
              \cup { DictC(FramelessScreen) }

MainDescribeOutcomes ==
    { [status |-> "ok", doc |-> d] : d \in MainDocuments } \cup
    { [status |-> st] : st \in {"exit_nonzero", "cannot_run", "not_json"} }

\* what argparse hands to main: an option left out is None (False for a
\* flag)
MainArgs ==
    [list : BOOLEAN,
     tap_at : {None, "200,400", "a,b", "5"},
     tap : BOOLEAN,
     enter_text : {None, "", "alice"},
     find_text : {None, "log"},
     find_exact : {None, "log"},
     find_type : {None, "Button"},
     find_id : {None},
     index : {0, -1, 5},
     udid : {None}]

\* whether the run gets to send a tap command
MainTapReached(args, outcome, dflt) ==
    LET mode == ModeOf(args)
        text == Or(args.find_text, args.find_exact)
    IN  CASE mode = "tap_at" ->
                /\ Len(SplitComma(args.tap_at)) = 2
                /\ \A i \in 1..2 : IsIntLiteral(SplitComma(args.tap_at)[i])
          [] mode = "tap" ->
                TapReached(find_element(Navigator(args.udid), text,
                                        args.find_type, args.find_id,
                                        args.index, TRUE, outcome, dflt))
          [] mode = "enter_text" ->
                TapReached(find_element(Navigator(args.udid), text,
                                        Or(args.find_type, "TextField"),
                                        args.find_id, args.index, TRUE,
                                        outcome, dflt))
          [] OTHER -> FALSE

\* the record of a run
Ran(args, outcome, tapOutcome, textOutcome, r) ==
    [op |-> "main", args |-> args,
     outcomes |-> [describe |-> outcome.status, tap |-> tapOutcome,
                   text |-> textOutcome],
     doc |-> IF outcome.status = "ok" THEN outcome.doc ELSE NoneC,
     status |-> r.status, stdout |-> r.stdout, traceback |-> r.traceback,
     mode |-> r.mode, cmds |-> r.cmds, self |-> r.self,
     elements |-> r.elements]

Main(args) ==
    \E outcome \in IF ModeOf(args) = "tap_at" THEN {[status |-> NotRun]}
                    ELSE MainDescribeOutcomes :
      \E tapOutcome \in
            TapChoices(MainTapReached(args, outcome, flattenDefault)) :
        \E textOutcome \in
              TapChoices(ModeOf(args) = "enter_text" /\ tapOutcome = "ok") :
          /\ last' = Ran(args, outcome, tapOutcome, textOutcome,
                         main(args, outcome, tapOutcome, textOutcome,
                              flattenDefault))
          /\ UNCHANGED <<nav, fetched, flattenDefault, ftree, fruns, deep>>

NextMain ==
    /\ last = NoCall
    /\ \E args \in MainArgs : Main(args)

SpecMain == Init /\ [][NextMain]_vars

-----------------------------------------------------------------------------
(* The deep-nesting specification: one _flatten_tree call on a chain of    *)
(* `depth` typed nodes, each the only child of the one above, run frame by *)
(* frame.  Line 145 is a Python call, so every level of nesting holds one  *)
(* more frame on the interpreter's stack, and CPython raises               *)
(* RecursionError for a call that would exceed its recursion limit.        *)

\* sys.getrecursionlimit() as CPython sets it; navigator.py never changes it
RecursionLimit == 1000

\* the nesting depths tried
DeepDepths == {1, 2, 3, RecursionLimit - 1, RecursionLimit, RecursionLimit + 1}

InitDeep ==
    /\ \E d \in DeepDepths :
          deep = [depth |-> d, frames |-> 0, emitted |-> 0,
                  status |-> "calling"]
    /\ nav = [n \in Navs |-> Navigator(UdidGiven[n])]
    /\ fetched = [n \in Navs |-> NoneC]
    /\ last = NoCall
    /\ flattenDefault = DefaultElements
    /\ ftree = EmptyDict
    /\ fruns = <<>>

\* lines 125-141 (and 145, the call): a frame is entered for the node at
\* the next level, whose Element is appended
DeepEnter ==
    /\ deep.status = "calling"
    /\ deep.frames < deep.depth
    /\ deep.frames + 1 <= RecursionLimit
    /\ deep' = [deep EXCEPT !.frames = @ + 1, !.emitted = @ + 1]
    /\ UNCHANGED <<nav, fetched, last, flattenDefault, ftree, fruns>>

\* line 145: the call that would exceed the limit raises RecursionError,
\* which no frame catches
DeepOverflow ==
    /\ deep.status = "calling"
    /\ deep.frames < deep.depth
    /\ deep.frames + 1 > RecursionLimit
    /\ deep' = [deep EXCEPT !.frames = 0, !.status = "RecursionError"]
    /\ UNCHANGED <<nav, fetched, last, flattenDefault, ftree, fruns>>

\* line 144: the innermost node has no children, the loop body never runs
DeepLeaf ==
    /\ deep.status = "calling"
    /\ deep.frames = deep.depth
    /\ deep' = [deep EXCEPT !.status = "returning"]
    /\ UNCHANGED <<nav, fetched, last, flattenDefault, ftree, fruns>>

\* line 147: a frame returns to the one that called it
DeepReturn ==
    /\ deep.status = "returning"
    /\ deep.frames > 0
    /\ deep' = [deep EXCEPT !.frames = @ - 1,
                            !.status = IF deep.frames = 1 THEN "returned"
                                       ELSE "returning"]
    /\ UNCHANGED <<nav, fetched, last, flattenDefault, ftree, fruns>>

NextDeep == DeepEnter \/ DeepOverflow \/ DeepLeaf \/ DeepReturn

SpecDeep == InitDeep /\ [][NextDeep]_vars

-----------------------------------------------------------------------------
(* Python floats: IEEE-754 binary64, round to nearest, ties to even.  A    *)
(* positive float is a sequence of Precision bits, the first of them 1,    *)
(* and an exponent: its value is 0.b1 b2 ... times 2^exp.                  *)

\* the significand of a binary64 has 53 bits
Precision == 53

FloatZero == [zero |-> TRUE, bits |-> <<>>, exp |-> 0]

\* the binary digits of n, the most significant first; none for 0
RECURSIVE BitsOf(_)
BitsOf(n) == IF n = 0 THEN <<>> ELSE Append(BitsOf(n \div 2), n % 2)

\* the number whose binary digits are the first n of bits
RECURSIVE ValueOfPrefix(_, _)
ValueOfPrefix(bits, n) ==
    IF n = 0 THEN 0 ELSE 2 * ValueOfPrefix(bits, n - 1) + bits[n]

\* bits + 1, one digit longer when every digit is 1
Increment(bits) ==
    LET zeros == { i \in 1..Len(bits) : bits[i] = 0 }
    IN  IF zeros = {} THEN <<1>> \o [i \in 1..Len(bits) |-> 0]
        ELSE LET last0 == CHOOSE i \in zeros : \A j \in zeros : j <= i
             IN  [i \in 1..Len(bits) |->
                    IF i < last0 THEN bits[i] ELSE IF i = last0 THEN 1 ELSE 0]

\* the float nearest to 0.sig times 2^exp, where sig starts with 1 and
\* `sticky` tells that non-zero digits follow those of sig
RoundBits(sig, exp, sticky) ==
    LET padded == IF Len(sig) > Precision THEN sig
                  ELSE sig \o [i \in 1..(Precision + 1 - Len(sig)) |-> 0]
        kept == SubSeq(padded, 1, Precision)
        guard == padded[Precision + 1]
        rest == sticky \/ \E i \in (Precision + 2)..Len(padded) :
                             padded[i] = 1
        roundUp == guard = 1 /\ (rest \/ kept[Precision] = 1)
        up == Increment(kept)
    IN  IF ~roundUp THEN [zero |-> FALSE, bits |-> kept, exp |-> exp]
        ELSE IF Len(up) > Precision
        THEN [zero |-> FALSE, bits |-> SubSeq(up, 1, Precision),
              exp |-> exp + 1]
        ELSE [zero |-> FALSE, bits |-> up, exp |-> exp]

\* the digits of rem / b after the point, by long division, until sig has
\* one digit more than a float keeps; `skipped` counts the zeros passed
\* before the first 1
RECURSIVE FracBits(_, _, _, _)
FracBits(rem, b, sig, skipped) ==
    IF Len(sig) > Precision \/ rem = 0
    THEN [sig |-> sig, rem |-> rem, skipped |-> skipped]
    ELSE LET digit == (2 * rem) \div b
             rem2 == (2 * rem) % b
         IN  IF sig = <<>> /\ digit = 0
             THEN FracBits(rem2, b, sig, skipped + 1)
             ELSE FracBits(rem2, b, Append(sig, digit), skipped)

\* a / b for integers a >= 0 and b > 0, correctly rounded
TrueDivide(a, b) ==
    IF a = 0 THEN FloatZero
    ELSE LET whole == BitsOf(a \div b)
             frac == FracBits(a % b, b, whole, 0)
         IN  RoundBits(frac.sig,
                       IF whole # <<>> THEN Len(whole) ELSE -frac.skipped,
                       frac.rem # 0)

\* the digits of (the first n of bits) times c, plus carry
RECURSIVE MulBits(_, _, _, _)
MulBits(bits, n, c, carry) ==
    IF n = 0 THEN BitsOf(carry)
    ELSE LET d == bits[n] * c + carry
             higher == MulBits(bits, n - 1, c, d \div 2)
         IN  IF d % 2 = 0 THEN Append(higher, 0) ELSE Append(higher, 1)

\* f * c for a float f >= 0 and an integer c >= 0, correctly rounded
Multiply(f, c) ==
    IF f.zero \/ c = 0 THEN FloatZero
    ELSE LET product == MulBits(f.bits, Precision, c, 0)
         IN  RoundBits(product, f.exp + Len(product) - Precision, FALSE)

\* int(f) for a float f >= 0
IntOf(f) ==
    IF f.zero \/ f.exp <= 0 THEN 0
    ELSE ValueOfPrefix(f.bits, f.exp)

-----------------------------------------------------------------------------
(* transform_screenshot_coords, on coordinates and dimensions that are     *)
(* integers >= 0                                                           *)

\* lines 277-279 returning a point where Python's division raises
transform_screenshot_coords_unchecked(x, y, screenshot_width, screenshot_height, device_width, device_height) ==
    [kind |-> "return", exc |-> None,
     ret |-> <<IF screenshot_width = 0 THEN 0
               ELSE IntOf(Multiply(TrueDivide(x, screenshot_width),
                                   device_width)),
               IF screenshot_height = 0 THEN 0
               ELSE IntOf(Multiply(TrueDivide(y, screenshot_height),
                                   device_height))>>]

\* lines 277-279: int((x / screenshot_width) * device_width), the same for
\* y; Python's / raises ZeroDivisionError on a zero divisor
transform_screenshot_coords(x, y, screenshot_width, screenshot_height, device_width, device_height) ==
    IF screenshot_width = 0 \/ screenshot_height = 0
    THEN [kind |-> "raise", exc |-> "ZeroDivisionError", ret |-> None]
    ELSE [kind |-> "return", exc |-> None,
          ret |-> <<IntOf(Multiply(TrueDivide(x, screenshot_width),
                                   device_width)),
                    IntOf(Multiply(TrueDivide(y, screenshot_height),
                                   device_height))>>]

\* tap points in a screenshot, screenshot sizes (full, half, none) and
\* device sizes
ScreenshotXs == {0, 29, 100}
ScreenshotYs == {0, 29, 200}
ScreenshotWidths == {0, 100, 195}
ScreenshotHeights == {0, 100, 422}
DeviceWidths == {100, 390}
DeviceHeights == {100, 844}

Transform(x, y, sw, sh, dw, dh) ==
    LET r == transform_screenshot_coords(x, y, sw, sh, dw, dh)
    IN  /\ last' = [op |-> "transform_screenshot_coords",
                    args |-> [x |-> x, y |-> y, screenshot_width |-> sw,
                              screenshot_height |-> sh, device_width |-> dw,
                              device_height |-> dh],
                    kind |-> r.kind, exc |-> r.exc, ret |-> r.ret]
        /\ UNCHANGED <<nav, fetched, flattenDefault, ftree, fruns, deep>>

NextTransform ==
    \E x \in ScreenshotXs, y \in ScreenshotYs, sw \in ScreenshotWidths,
       sh \in ScreenshotHeights, dw \in DeviceWidths, dh \in DeviceHeights :
        Transform(x, y, sw, sh, dw, dh)

SpecTransform == Init /\ [][NextTransform]_vars

-----------------------------------------------------------------------------
(* Raw trees described by paths, for stating the flattener's properties    *)

\* the paths (child indices from the root) of all nodes under `node`
RECURSIVE PathsFrom(_, _)
PathsFrom(node, path) ==
    {path} \cup
    UNION { PathsFrom(ChildrenOf(node)[i], Append(path, i)) :
            i \in 1..Len(ChildrenOf(node)) }

RECURSIVE NodeAt(_, _)
NodeAt(node, path) ==
    IF path = <<>> THEN node
    ELSE NodeAt(ChildrenOf(node)[Head(path)], Tail(path))

\* a node has a recognizable type: the key is present and not empty
HasType(node) == "type" \in DOMAIN node /\ node["type"] # ""

TypedPaths(tree) == { p \in PathsFrom(tree, <<>>) : HasType(NodeAt(tree, p)) }

\* q is a descendant of p
IsDescendant(p, q) == Len(p) < Len(q) /\ SubSeq(q, 1, Len(p)) = p

\* p is in the subtree of an earlier sibling than the one whose subtree
\* holds q
EarlierSibling(p, q) ==
    \E k \in 1..Len(p) :
        /\ k <= Len(q)
        /\ SubSeq(p, 1, k - 1) = SubSeq(q, 1, k - 1)
        /\ p[k] < q[k]

\* the positions at which `out` holds the Element of the node at p
PositionsOf(out, p) == { i \in 1..Len(out) : out[i].identifier = PathId(p) }

\* the Element of the node at p comes before that of the node at q
Precedes(out, p, q) ==
    /\ PositionsOf(out, p) # {}
    /\ PositionsOf(out, q) # {}
    /\ \A i \in PositionsOf(out, p) : \A j \in PositionsOf(out, q) : i < j

IdsOf(out) == [i \in 1..Len(out) |-> out[i].identifier]

\* root R with children [C1, C2], C1 having the child C1a, every node typed
IsExampleTree(tree) ==
    /\ PathsFrom(tree, <<>>) = {<<>>, <<1>>, <<1, 1>>, <<2>>}
    /\ TypedPaths(tree) = PathsFrom(tree, <<>>)

-----------------------------------------------------------------------------
(* Properties of the flattener *)

\* C6: flattening is pre-order depth-first: the Element of every typed node
\* comes before the Elements of all its typed descendants, the Elements of
\* a sibling's subtree come before those of every later sibling's subtree,
\* and root R with children [C1, C2], C1 having child C1a, flattens to
\* [R, C1, C1a, C2].
FlattenPreOrder ==
    \A k \in 1..Len(fruns) :
        /\ \A p, q \in TypedPaths(ftree) :
              /\ IsDescendant(p, q) => Precedes(fruns[k], p, q)
              /\ EarlierSibling(p, q) => Precedes(fruns[k], p, q)
        /\ IsExampleTree(ftree) =>
              IdsOf(fruns[k]) = <<"r", "r.1", "r.1.1", "r.2">>

FlattenPreOrderWitness ==
    /\ Len(fruns) >= 1
    /\ IsExampleTree(ftree)

\* C7: a node without a type (missing or empty) produces no Element, every
\* typed node, also one under an untyped node, produces exactly one Element
\* at its pre-order position among the typed nodes, and the number of
\* Elements is the number of typed nodes.
FlattenSkipsUntyped ==
    \A k \in 1..Len(fruns) :
        LET out == fruns[k]
            typed == TypedPaths(ftree)
        IN  /\ Len(out) = Cardinality(typed)
            /\ \A i \in 1..Len(out) :
                  \E p \in typed : out[i].identifier = PathId(p)
            /\ \A p \in typed :
                  PositionsOf(out, p) =
                    { 1 + Cardinality({ q \in typed : IsDescendant(q, p)
                                                      \/ EarlierSibling(q, p) }) }

FlattenSkipsUntypedWitness ==
    /\ Len(fruns) >= 1
    /\ \E p, q \in PathsFrom(ftree, <<>>) :
          /\ IsDescendant(p, q)
          /\ ~HasType(NodeAt(ftree, p))
          /\ "type" \notin DOMAIN NodeAt(ftree, <<>>)
          /\ HasType(NodeAt(ftree, q))
          /\ PositionsOf(fruns[1], q) # {}

\* C9: two calls of _flatten_tree on one tree, made without an accumulator,
\* return the same sequence, the second holding nothing left over from the
\* first, and the tree is the same tree after each call.
FlattenDeterministic ==
    /\ [](\A i, j \in 1..Len(fruns) :
            /\ fruns[i] = fruns[j]
            /\ Len(fruns[j]) = Cardinality(TypedPaths(ftree)))
    /\ [][ftree' = ftree]_vars

FlattenDeterministicWitness ==
    /\ Len(fruns) = 2
    /\ Len(fruns[2]) >= 2

-----------------------------------------------------------------------------
(* Properties of the tree cache *)

\* the describe-all commands among the commands of the last call
FetchesOfLast == SelectSeq(last.cmds, IsDescribe)

\* the snapshots a Navigator can hold
Snapshots == {NoneC} \cup { TreeOf(d) : d \in Documents }

\* C1: once a fetch has succeeded on a Navigator, a later
\* get_accessibility_tree(force_refresh=False) on it issues no fetch and
\* returns the cached snapshot, which stays as it was, whatever tree was
\* fetched; and a call issues one fetch exactly when it is made with
\* force_refresh=True or while no snapshot is cached, none otherwise.
CacheReuse ==
    last.op = "get_accessibility_tree" =>
        /\ (last.preFetched # NoneC /\ ~last.args.force_refresh) =>
              /\ FetchesOfLast = <<>>
              /\ last.kind = "return"
              /\ last.ret = last.pre._tree_cache
              /\ nav[last.nav]._tree_cache = last.pre._tree_cache
        /\ Len(FetchesOfLast) =
              IF last.args.force_refresh \/ last.pre._tree_cache = NoneC
              THEN 1 ELSE 0

\* C2: get_accessibility_tree(force_refresh=True) sends exactly one
\* describe-all command, also when a snapshot is cached; when the fetch
\* succeeds the call returns the fetched tree and the cache holds it; and
\* at all times the cache of a Navigator that has fetched successfully is
\* the tree of its most recent successful fetch.
ForcedRefresh ==
    /\ \A n \in Navs :
          fetched[n] # NoneC => nav[n]._tree_cache = TreeOf(fetched[n])
    /\ (last.op = "get_accessibility_tree" /\ last.args.force_refresh) =>
          /\ Len(last.cmds) = 1
          /\ IsDescribe(last.cmds[1])
          /\ last.outcomes.describe = "ok" =>
                /\ last.kind = "return"
                /\ last.ret = TreeOf(fetched[last.nav])
                /\ nav[last.nav]._tree_cache = last.ret

ForcedRefreshWitness ==
    /\ last.op = "get_accessibility_tree"
    /\ last.args.force_refresh
    /\ Truthy(last.pre._tree_cache)
    /\ last.outcomes.describe = "ok"
    /\ nav[last.nav]._tree_cache # last.pre._tree_cache

\* C3: when the describe-all run fails (it exits non-zero, cannot be
\* started, or prints something that is not JSON), get_accessibility_tree
\* raises instead of returning a tree, has sent exactly one describe-all
\* command, and leaves the cached snapshot as it was.
FetchFailureIsHard ==
    (/\ last.op = "get_accessibility_tree"
     /\ last.outcomes.describe \in {"exit_nonzero", "cannot_run", "not_json"}) =>
        /\ last.kind = "raise"
        /\ last.exc \in {"SystemExit", "FileNotFoundError"}
        /\ Len(last.cmds) = 1
        /\ IsDescribe(last.cmds[1])
        /\ nav[last.nav]._tree_cache = last.pre._tree_cache

FetchFailureIsHardWitness ==
    /\ last.op = "get_accessibility_tree"
    /\ last.outcomes.describe = "not_json"
    /\ last.args.force_refresh
    /\ Truthy(last.pre._tree_cache)
    /\ last.kind = "raise"

\* C4: tap, tap_at, enter_text, find_element, find_and_tap and
\* find_and_enter_text leave an already cached snapshot as it was and send
\* no describe-all command, whether they succeed or fail.
NoAutomaticInvalidation ==
    (/\ last.op \in {"tap", "tap_at", "enter_text", "find_element",
                     "find_and_tap", "find_and_enter_text"}
     /\ last.pre._tree_cache # NoneC) =>
        /\ nav[last.nav]._tree_cache = last.pre._tree_cache
        /\ FetchesOfLast = <<>>

\* C5: each Navigator holds one snapshot of its own (or none), and a call
\* on one Navigator, whatever it comes to, leaves the other Navigator's
\* fields as they were.
CacheIndependence ==
    /\ [](\A n \in Navs : nav[n]._tree_cache \in Snapshots)
    /\ [][\A m \in Navs : m # last'.nav => nav'[m] = nav[m]]_vars

CacheIndependenceWitness ==
    /\ last.op = "get_accessibility_tree"
    /\ last.nav = "n1"
    /\ last.args.force_refresh
    /\ Truthy(last.pre._tree_cache)
    /\ Truthy(nav["n2"]._tree_cache)
    /\ nav["n1"]._tree_cache # nav["n2"]._tree_cache
    /\ nav["n1"]._tree_cache # last.pre._tree_cache

-----------------------------------------------------------------------------
(* Properties of the matcher *)

\* the raw tree the last call found in the cache
TreeOfLast == last.pre._tree_cache.val

\* the paths of the typed nodes of `tree` whose enabled is false
DisabledPaths(tree) ==
    { p \in TypedPaths(tree) :
        "enabled" \in DOMAIN NodeAt(tree, p) /\ ~NodeAt(tree, p)["enabled"] }

\* C8: whatever the text, type, identifier, index and fuzzy given,
\* find_element never returns the Element of a node whose enabled is false,
\* while the flattened sequence it searched holds an Element, with
\* enabled false, for every such typed node.
DisabledExclusion ==
    last.op = "find_element" =>
        /\ last.ret # NoElement =>
              /\ last.ret.enabled
              /\ \A p \in DisabledPaths(TreeOfLast) :
                    last.ret.identifier # PathId(p)
        /\ \A p \in DisabledPaths(TreeOfLast) :
              \E i \in 1..Len(last.elements) :
                  /\ last.elements[i].identifier = PathId(p)
                  /\ ~last.elements[i].enabled

DisabledExclusionWitness ==
    /\ last.op = "find_element"
    /\ last.args.text = "log"
    /\ last.args.element_type = "Button"
    /\ last.args.identifier = "r"
    /\ last.args.index = 0
    /\ <<>> \in DisabledPaths(TreeOfLast)
    /\ last.kind = "return"
    /\ last.ret = NoElement
    /\ ~last.elements[1].enabled

-----------------------------------------------------------------------------
(* Properties of the criteria *)

IsFind == last.op = "find_element"

\* a criterion the caller supplied
Given(v) == v # None /\ v # ""

\* a missing label or value counts as the empty string
FieldText(v) == IF v = None THEN "" ELSE v

Haystack(e) == FieldText(e.label) \o " " \o FieldText(e.value)

FuzzyHit(e, text) == In(Lower(text), Lower(Haystack(e)))

ExactHit(e, text) == text = e.label \/ text = e.value

TypeHit(e, args) == Given(args.element_type) => e.type = args.element_type

IdentifierHit(e, args) == Given(args.identifier) => e.identifier = args.identifier

TextHit(e, args) ==
    Given(args.text) => IF args.fuzzy THEN FuzzyHit(e, args.text)
                                      ELSE ExactHit(e, args.text)

Satisfies(e, args) ==
    e.enabled /\ TypeHit(e, args) /\ IdentifierHit(e, args) /\ TextHit(e, args)

\* the elements of the flattened sequence that satisfy the last call's
\* criteria, in the order of that sequence
Expected == SelectSeq(last.elements, LAMBDA e : Satisfies(e, last.args))

\* the element at 0-based position index of seq, absent past its end
At(seq, index) == IF index < Len(seq) THEN seq[index + 1] ELSE NoElement

Returned(element) == last.kind = "return" /\ last.ret = element

\* C11: every element find_element returns is enabled and satisfies all
\* the supplied criteria at once, the type and the identifier by exact,
\* case-sensitive equality; and no enabled element that satisfies them all
\* is dropped: with n such elements every index 0..n-1 yields an element.
FiltersAreANDed ==
    IsFind =>
        /\ (last.kind = "return" /\ last.ret # NoElement) =>
              /\ last.ret.enabled
              /\ Given(last.args.element_type) =>
                    last.ret.type = last.args.element_type
              /\ Given(last.args.identifier) =>
                    last.ret.identifier = last.args.identifier
              /\ TextHit(last.ret, last.args)
              /\ \E i \in 1..Len(last.elements) : last.elements[i] = last.ret
        /\ last.args.index \in 0..(Len(Expected) - 1) =>
              last.kind = "return" /\ last.ret # NoElement

FiltersAreANDedWitness ==
    /\ IsFind
    /\ last.args.text = "log"
    /\ last.args.element_type = "Button"
    /\ last.args.identifier = "login"
    /\ last.args.index = 0
    /\ Len(last.elements) = 3
    /\ last.elements[2].type = "StaticText"
    /\ last.elements[3].identifier = "login"
    /\ Returned(last.elements[3])

\* C12: with fuzzy true and a text given, the enabled elements that pass
\* the text filter are exactly those whose label + " " + value (a missing
\* one counting as "") contains the text when both are compared without
\* regard to case; the joining space is always there, so a text that spans
\* the label and the value matches.
FuzzyTextFilter ==
    (IsFind /\ last.args.fuzzy /\ Given(last.args.text)
            /\ last.args.index >= 0) =>
        LET survivors ==
              SelectSeq(last.elements,
                  LAMBDA e : /\ e.enabled
                             /\ TypeHit(e, last.args)
                             /\ IdentifierHit(e, last.args)
                             /\ In(Lower(last.args.text),
                                   Lower(FieldText(e.label) \o " " \o
                                         FieldText(e.value))))
        IN  Returned(At(survivors, last.args.index))

FuzzyTextFilterWitness ==
    /\ IsFind
    /\ last.args.fuzzy
    /\ last.args.text = "LOG IN"
    /\ last.args.index = 1
    /\ last.kind = "return"
    /\ last.ret # NoElement
    /\ last.ret.label = "Log"
    /\ last.ret.value = "In"
    /\ last.elements[2].label = None
    /\ last.elements[2].value = "Log In"

\* C13: with fuzzy false and a text given, the enabled elements that pass
\* the text filter are exactly those whose label, or whose value, is the
\* text itself; a text that is a substring, differs in case or equals the
\* label + " " + value does not pass.  On a label "Log In" the text "log"
\* matches with fuzzy true and does not with fuzzy false.
ExactTextFilter ==
    /\ (IsFind /\ ~last.args.fuzzy /\ Given(last.args.text)
               /\ last.args.index >= 0) =>
          LET survivors ==
                SelectSeq(last.elements,
                    LAMBDA e : /\ e.enabled
                               /\ TypeHit(e, last.args)
                               /\ IdentifierHit(e, last.args)
                               /\ \/ e.label = last.args.text
                                  \/ e.value = last.args.text)
          IN  Returned(At(survivors, last.args.index))
    /\ (IsFind /\ last.args.text = "log" /\ last.args.index = 0
               /\ ~Given(last.args.element_type)
               /\ ~Given(last.args.identifier)
               /\ \E i \in 1..Len(last.elements) :
                      last.elements[i].enabled
                      /\ last.elements[i].label = "Log In") =>
          IF last.args.fuzzy
          THEN last.kind = "return" /\ last.ret # NoElement
          ELSE Returned(NoElement)

ExactTextFilterWitness ==
    /\ IsFind
    /\ ~last.args.fuzzy
    /\ last.args.text = "log"
    /\ last.args.index = 0
    /\ ~Given(last.args.element_type)
    /\ ~Given(last.args.identifier)
    /\ Len(last.elements) = 3
    /\ last.elements[2].enabled /\ last.elements[2].label = "Log In"
    /\ last.elements[3].enabled /\ last.elements[3].label = "log in"
    /\ Returned(NoElement)

\* C14: when 0 <= index < the number of matches, find_element returns the
\* element at position index of the matches taken in the order of the
\* flattened sequence; of three enabled Buttons A, B, C in document order,
\* type Button with index 1 gives B.
IndexSelection ==
    IsFind =>
        /\ last.args.index \in 0..(Len(Expected) - 1) =>
              Returned(Expected[last.args.index + 1])
        /\ (/\ last.pre._tree_cache = DictC(ButtonsScreen)
            /\ last.args.element_type = "Button"
            /\ ~Given(last.args.text) /\ ~Given(last.args.identifier)
            /\ last.args.index = 1) =>
              last.kind = "return" /\ last.ret # NoElement
              /\ last.ret.label = "B"

IndexSelectionWitness ==
    /\ IsFind
    /\ last.pre._tree_cache = DictC(ButtonsScreen)
    /\ last.args.element_type = "Button"
    /\ last.args.text = None /\ last.args.identifier = None
    /\ last.args.index = 1
    /\ Len(Expected) = 3
    /\ last.kind = "return"
    /\ last.ret # NoElement
    /\ last.ret.label = "B"

\* C15: for every integer index that is not a position 0..n-1 of the n
\* matches, and whenever there is no match, find_element returns None and
\* raises nothing.
IndexOutOfRangeIsAbsence ==
    (IsFind /\ last.args.index \notin 0..(Len(Expected) - 1)) =>
        Returned(NoElement)

\* an absent criterion in place of an empty one
Blank(v) == IF v = "" THEN None ELSE v

\* C16: a criterion that is absent or empty filters nothing: with text,
\* type and identifier all absent or empty, find_element returns the
\* index-th enabled element of the flattened sequence; and a call with
\* empty criteria comes to what the call with those criteria absent
\* comes to.
EmptyCriterionIsNoOp ==
    IsFind =>
        /\ (/\ ~Given(last.args.text) /\ ~Given(last.args.element_type)
            /\ ~Given(last.args.identifier) /\ last.args.index >= 0) =>
              Returned(At(SelectSeq(last.elements, LAMBDA e : e.enabled),
                          last.args.index))
        /\ LET absent == find_element(last.pre, Blank(last.args.text),
                                      Blank(last.args.element_type),
                                      Blank(last.args.identifier),
                                      last.args.index, last.args.fuzzy,
                                      [status |-> NotRun], DefaultElements)
           IN  /\ last.kind = absent.kind
               /\ last.exc = absent.exc
               /\ last.ret = absent.ret

EmptyCriterionIsNoOpWitness ==
    /\ IsFind
    /\ last.args.text = "" /\ last.args.element_type = ""
    /\ last.args.identifier = ""
    /\ last.args.index = 1
    /\ Len(last.elements) = 3
    /\ ~last.elements[2].enabled
    /\ Returned(last.elements[3])

-----------------------------------------------------------------------------
(* Properties of the interactions *)

\* x + width / 2 and y + height / 2 of a frame of non-negative integers,
\* with the fraction dropped
CenterOf(frame) ==
    <<frame.x + (frame.width \div 2), frame.y + (frame.height \div 2)>>

\* the tap command the last call's Navigator sends for `element`
TapOn(element) ==
    TapCmd(last.pre.udid, CenterOf(element.frame)[1],
           CenterOf(element.frame)[2])

\* C17: tap(element) sends one tap command and no other, at
\* (x + width/2, y + height/2) of the element's frame truncated to
\* integers ((125, 220) for the frame 100, 200, 50, 40), and comes to
\* exactly what the tap_at call at that point comes to.
TapAtCenter ==
    last.op = "tap" =>
        /\ Len(last.cmds) = 1
        /\ LET c == CenterOf(last.args.element.frame)
               at == tap_at(last.pre, c[1], c[2], last.outcomes.tap,
                            DefaultElements)
           IN  /\ last.cmds = <<TapOn(last.args.element)>>
               /\ last.args.element.frame = Frame(100, 200, 50, 40) =>
                     last.cmds[1].x = 125 /\ last.cmds[1].y = 220
               /\ last.kind = at.kind
               /\ last.exc = at.exc
               /\ last.ret = at.ret

\* C18: tap_at returns true when the tap command succeeds and returns
\* false, raising nothing, when it fails, whether it exits non-zero or
\* cannot be run at all.
TapAtNeverRaises ==
    last.op = "tap_at" =>
        /\ last.kind = "return"
        /\ last.ret = (last.outcomes.tap = "ok")

\* C19: in enter_text with an element, when the tap that takes the focus
\* fails, enter_text returns false and sends no text command.
FailedTapPropagation ==
    (/\ last.op = "enter_text"
     /\ last.args.element # NoElement
     /\ last.outcomes.tap \in {"exit_nonzero", "cannot_run"}) =>
        /\ SelectSeq(last.cmds, IsText) = <<>>
        /\ Returned(FALSE)

\* C20: with an element and a successful tap, one enter_text call makes
\* exactly the tap, then the settle delay, then one text command; without
\* an element it makes one text command and nothing else; it returns true
\* exactly when the text command succeeded.
EnterTextOrdering ==
    last.op = "enter_text" =>
        LET send == TextCmd(last.pre.udid, last.args.text)
        IN  /\ (last.args.element # NoElement /\ last.outcomes.tap = "ok") =>
                  last.cmds = <<TapOn(last.args.element), Sleep, send>>
            /\ last.args.element = NoElement => last.cmds = <<send>>
            /\ (last.kind = "return" /\ last.ret) <=>
                  last.outcomes.text = "ok"

EnterTextOrderingWitness ==
    /\ last.op = "enter_text"
    /\ last.args.element # NoElement
    /\ last.outcomes.tap = "ok"
    /\ last.outcomes.text = "ok"
    /\ Len(last.cmds) = 3
    /\ IsTap(last.cmds[1])
    /\ last.cmds[2] = Sleep
    /\ IsText(last.cmds[3])
    /\ Returned(TRUE)

-----------------------------------------------------------------------------
(* Properties of the composed operations *)

IsComposed == last.op \in {"find_and_tap", "find_and_enter_text"}

\* C24: once a tree has been obtained, find_and_tap and
\* find_and_enter_text return a (success, message) pair and raise nothing,
\* whatever the tree (a matched node may lack its frame) and whatever
\* failure the tap or the text command meets.
ComposedNeverRaise ==
    (IsComposed /\ last.outcomes.describe \in {"ok", NotRun}) =>
        /\ last.kind = "return"
        /\ DOMAIN last.ret = {"success", "message", "at"}

\* the criteria the last composed call was given, those of
\* find_and_enter_text under their own names
CriteriaGiven ==
    { v \in { IF last.op = "find_and_tap" THEN last.args.text
                                           ELSE last.args.find_text,
              last.args.element_type, last.args.identifier } :
        v \notin {None, "", Omitted} }

\* C22: when nothing matches, or the index is past the matches,
\* find_and_tap and find_and_enter_text return success false with a
\* message that names each criterion given, and send no tap and no text
\* command.
NotFoundEchoesCriteria ==
    (/\ IsComposed
     /\ last.kind = "return"
     /\ SelectSeq(last.cmds, IsTap) = <<>>) =>
        /\ ~last.ret.success
        /\ SelectSeq(last.cmds, IsText) = <<>>
        /\ \A v \in CriteriaGiven : In(v, last.ret.message)

\* C23: find_and_enter_text called without a type looks for a TextField
\* and for nothing else, enters the text with enter_text on the element
\* found, and returns success exactly when an element was found, the tap
\* succeeded and the text command succeeded.
EnterTextDefaultsToTextField ==
    last.op = "find_and_enter_text" =>
        /\ (last.args.element_type = Omitted
              /\ SelectSeq(last.cmds, IsTap) # <<>>) =>
              \E i \in 1..Len(last.elements) :
                  LET e == last.elements[i]
                  IN  /\ e.type = "TextField"
                      /\ e.enabled
                      /\ HasFrame(e)
                      /\ SelectSeq(last.cmds, IsTap) =
                            <<TapCmd(last.pre.udid, CenterOf(e.frame)[1],
                                     CenterOf(e.frame)[2])>>
        /\ (last.outcomes.tap = "ok") =>
              /\ SelectSeq(last.cmds, IsText) =
                    <<TextCmd(last.pre.udid, last.args.text_to_enter)>>
              /\ last.cmds[Len(last.cmds) - 1] = Sleep
        /\ (last.kind = "return" /\ last.ret.success) <=>
              (last.outcomes.tap = "ok" /\ last.outcomes.text = "ok")

EnterTextDefaultsToTextFieldWitness ==
    /\ last.op = "find_and_enter_text"
    /\ last.args.element_type = Omitted
    /\ last.args.find_text = None
    /\ last.outcomes.tap = "ok"
    /\ last.outcomes.text = "ok"
    /\ last.elements[2].type = "Button" /\ last.elements[2].enabled
    /\ last.elements[3].type = "TextField"
    /\ last.kind = "return"
    /\ last.ret.success
    /\ last.ret.message = "Entered text in: TextField \"Username\""

\* the device argument of every command of Navigator n
DeviceOf(n) ==
    IF UdidGiven[n] = None THEN <<>> ELSE <<"--udid", UdidGiven[n]>>

\* C29: every command a Navigator sends (tree fetch, tap, text entry)
\* carries --udid with the udid given at construction, or no device
\* argument when none was given; the udid never changes.
DeviceTargeting ==
    /\ \A n \in Navs : nav[n].udid = UdidGiven[n]
    /\ last # NoCall =>
          \A i \in 1..Len(last.cmds) :
              last.cmds[i].argv[1] = "idb" =>
                  last.cmds[i].device = DeviceOf(last.nav)

DeviceTargetingWitness ==
    /\ last.op = "find_and_enter_text"
    /\ last.nav = "n2"
    /\ Len(last.cmds) = 4
    /\ IsDescribe(last.cmds[1]) /\ IsTap(last.cmds[2]) /\ IsText(last.cmds[4])
    /\ \A i \in {1, 2, 4} : last.cmds[i].device = <<"--udid", "SIM-2">>
    /\ nav["n2"].udid = "SIM-2"

-----------------------------------------------------------------------------
(* Properties of the command line *)

IsMain == last.op = "main"

\* the run fetched a document and holds a tree
HoldsTree ==
    /\ IsMain
    /\ last.outcomes.describe = "ok"
    /\ last.self._tree_cache.tag = "dict"

\* what find_element returns for the criteria of the command line, --find-exact
\* meaning fuzzy false, on the snapshot the run holds
MatcherResult ==
    find_element(last.self, Or(last.args.find_text, last.args.find_exact),
                 last.args.find_type, last.args.find_id, last.args.index,
                 last.args.find_text # None, [status |-> NotRun],
                 DefaultElements)

StartsWith(s, prefix) ==
    Len(s) >= Len(prefix) /\ SubSeq(s, 1, Len(prefix)) = prefix

TapsOfLast == SelectSeq(last.cmds, IsTap)

\* C21: find_and_tap taps exactly the element that find_element returns
\* for the same criteria, fuzzy false included (--find-exact with --tap),
\* on the same snapshot, and reports not found exactly when find_element
\* finds nothing.
FindAndTapComposesMatcher ==
    (HoldsTree /\ last.mode = "tap" /\ MatcherResult.kind = "return") =>
        LET element == MatcherResult.ret
        IN  IF element = NoElement
            THEN /\ TapsOfLast = <<>>
                 /\ last.traceback = None
                 /\ StartsWith(last.stdout[1].text, "Not found: ")
            ELSE /\ HasFrame(element) =>
                       TapsOfLast =
                           <<TapCmd(last.self.udid,
                                    CenterOf(element.frame)[1],
                                    CenterOf(element.frame)[2])>>
                 /\ last.traceback = None =>
                       ~StartsWith(last.stdout[1].text, "Not found: ")

\* the lines of a listing under its header line
IsListItem(line) == StartsWith(line.text, "  ")

\* the operation of the run succeeded
Succeeded ==
    CASE last.mode = "list" -> last.outcomes.describe = "ok"
      [] last.mode = "tap_at" -> last.outcomes.tap = "ok"
      [] last.mode = "tap" -> last.outcomes.tap = "ok"
      [] last.mode = "enter_text" -> last.outcomes.text = "ok"
      [] last.mode = "find" ->
            /\ HoldsTree
            /\ MatcherResult.kind = "return"
            /\ MatcherResult.ret # NoElement

\* C27: every run of main runs one mode, prints exactly one primary
\* result line, and exits with status 0 exactly when the operation
\* succeeded.
OneResultLineAndStatus ==
    IsMain =>
        /\ last.mode \in {"list", "tap_at", "tap", "enter_text", "find"}
        /\ Len(SelectSeq(last.stdout, LAMBDA l : ~IsListItem(l))) = 1
        /\ (last.status = 0) <=> Succeeded

\* the elements list mode is to show, in document order
TappableOf(elements) ==
    SelectSeq(elements,
        LAMBDA e : e.enabled /\
                   e.type \in {"Button", "Link", "Cell", "TextField",
                               "SecureTextField"})

\* C28: list mode reports the number of enabled elements of the types
\* Button, Link, Cell, TextField, SecureTextField, then shows the first
\* 10 of them at most, in document order, then a line "... and N more"
\* with N the number left, exactly when there are more than 10; it sends
\* no tap and no text command.
ListModeShowsTappable ==
    (IsMain /\ last.mode = "list" /\ last.outcomes.describe = "ok") =>
        LET tappable == TappableOf(last.elements)
            n == Len(tappable)
            shown == IF n < 10 THEN n ELSE 10
        IN  /\ last.traceback = None
            /\ last.stdout[1] = Line("Tappable elements", <<n>>)
            /\ Len(last.stdout) = 1 + shown + (IF n > 10 THEN 1 ELSE 0)
            /\ \A i \in 1..shown :
                  /\ StartsWith(last.stdout[1 + i].text,
                                "  " \o tappable[i].type \o ": ")
                  /\ last.stdout[1 + i].nums = CenterOf(tappable[i].frame)
            /\ n > 10 =>
                  last.stdout[Len(last.stdout)] =
                      Line("  ... and more", <<n - 10>>)
            /\ SelectSeq(last.cmds, LAMBDA c : IsTap(c) \/ IsText(c)) = <<>>

\* the run with the same arguments and outcomes, had describe-all printed
\* `doc`
RunOn(doc) ==
    main(last.args, [status |-> "ok", doc |-> doc], last.outcomes.tap,
         last.outcomes.text, DefaultElements)

\* C30: of a non-empty array of roots only the first is cached, and the
\* run (find mode, list mode, the actions) is the run on the first root
\* alone: nothing under a later root is found or listed.  A single object
\* is cached as it is.
FirstRootOnly ==
    (IsMain /\ last.outcomes.describe = "ok") =>
        /\ (last.doc.tag = "list" /\ Len(last.doc.val) > 0) =>
              /\ last.self._tree_cache = DictC(last.doc.val[1])
              /\ last.status = RunOn(DictC(last.doc.val[1])).status
              /\ last.stdout = RunOn(DictC(last.doc.val[1])).stdout
              /\ last.elements = RunOn(DictC(last.doc.val[1])).elements
              /\ \A i \in 1..Len(last.elements) :
                    last.elements[i].identifier \notin
                        {"loginButton", "userField", "submit"}
        /\ last.doc.tag = "dict" => last.self._tree_cache = last.doc

FirstRootOnlyWitness ==
    /\ IsMain
    /\ last.mode = "find"
    /\ last.args.find_text = "log"
    /\ last.args.index = 0
    /\ last.args.find_type = None
    /\ last.doc = ListC(<<HomeScreen, LoginScreen>>)
    /\ last.self._tree_cache = DictC(HomeScreen)
    /\ last.status = 0
    /\ last.stdout = <<Line("Found: Button \"Log Out\" at ", <<330, 65>>)>>

-----------------------------------------------------------------------------
(* Properties of the coordinate transform *)

IsTransform == last.op = "transform_screenshot_coords"

\* C25: for positive screenshot dimensions the result is
\* (floor(x / sw * dw), floor(y / sh * dh)), each axis on its own, and
\* (100, 200) in a 195 x 422 screenshot of a 390 x 844 device gives
\* (200, 400).
TransformIsFloorOfScale ==
    (/\ IsTransform
     /\ last.args.screenshot_width > 0
     /\ last.args.screenshot_height > 0) =>
        /\ last.kind = "return"
        /\ last.ret =
              <<(last.args.x * last.args.device_width)
                    \div last.args.screenshot_width,
                (last.args.y * last.args.device_height)
                    \div last.args.screenshot_height>>
        /\ (last.args = [x |-> 100, y |-> 200, screenshot_width |-> 195,
                         screenshot_height |-> 422, device_width |-> 390,
                         device_height |-> 844]) =>
              last.ret = <<200, 400>>

\* C26, as the code has it: with a screenshot width or height of zero the
\* call raises ZeroDivisionError and returns no point.
ZeroDimensionRaises ==
    (/\ IsTransform
     /\ last.args.screenshot_width = 0 \/ last.args.screenshot_height = 0) =>
        /\ last.kind = "raise"
        /\ last.exc = "ZeroDivisionError"
        /\ last.ret = None

ZeroDimensionRaisesWitness ==
    /\ IsTransform
    /\ last.args.x = 100
    /\ last.args.screenshot_width = 195
    /\ last.args.screenshot_height = 0
    /\ last.kind = "raise"
    /\ last.exc = "ZeroDivisionError"

\* C26, as stated: with a screenshot width or height of zero the call
\* signals no error and returns some point.
ZeroDimensionGivesResult ==
    (/\ IsTransform
     /\ last.args.screenshot_width = 0 \/ last.args.screenshot_height = 0) =>
        last.kind = "return"

-----------------------------------------------------------------------------
(* Properties of deep nesting *)

\* C10: for a tree of any finite nesting depth, _flatten_tree never fails
\* for the depth alone, and when it has returned it has emitted the
\* Element of every node.
FlattenAnyDepth ==
    /\ deep.status # "RecursionError"
    /\ deep.status = "returned" => deep.emitted = deep.depth

=============================================================================
